---- MODULE Spec2Model ----
(***************************************************************************)
(* Model of the trade-ledger pipeline of portfolio-analyzer:               *)
(*   stock_split_handler.py  apply_splits                                  *)
(*   xirr_analysis.py        xnpv / xirr / calculate_xirr                  *)
(*   currency_converter.py   convert_to_inr                                *)
(*   app.py                  PortfolioAnalyzer                             *)
(* Real-valued columns (Quantity, T. price, Proceeds, fee, rates) are      *)
(* exact rationals <<numerator, denominator>> in lowest terms.             *)
(***************************************************************************)
EXTENDS Integers, Sequences, FiniteSets, TLC

VARIABLES
    \* inputs: tables handed to the functions and what the libraries answer
    trading_df,     \* the caller's trade table (apply_splits, calculate_xirr,
                    \* convert_to_inr)
    split_df,       \* apply_splits: the split table
    splits_csv,     \* load_stock_splits: the file at its path
    cashflows_arg,  \* xirr: the cash flows of a direct call
    uploaded_files, \* files handed to PortfolioAnalyzer.load_csv_files
    yf_splits,      \* yfinance: ticker.splits, per symbol
    yf_price,       \* yfinance: ticker.info currentPrice
    solver,         \* scipy.optimize.newton: how it ends, per cash-flow series
    pyxirr_res,     \* pyxirr.xirr: how it ends, per symbol
    fx_api,         \* exchangerate-api: the answer to the rates request
    forex,          \* forex_python get_rate: the answer per currency
    \* results of the stand-alone functions
    adjusted,       \* value returned by apply_splits
    xirr_ret,       \* outcome of xirr(cashflows_arg)
    xirr_out,       \* outcome of xirr_analysis.calculate_xirr(trading_df)
    inr_out,        \* outcome of convert_to_inr(trading_df)
    \* PortfolioAnalyzer and the dashboard session
    all_trades,     \* PortfolioAnalyzer.all_trades
    holdings,       \* PortfolioAnalyzer.holdings
    stock_splits,   \* PortfolioAnalyzer.stock_splits
    currency_rates, \* PortfolioAnalyzer.currency_rates
    converted,      \* the Proceeds_<cur> / Price_<cur> columns of all_trades
    xirr_results,   \* st.session_state.xirr_results
    loaded_trades,  \* all_trades as load_csv_files left it (history variable)
    pc              \* position of the run: the stand-alone calls, then main()'s
                    \* Process Data sequence and the XIRR tab

otherInputs == <<split_df, splits_csv, cashflows_arg, uploaded_files,
                 yf_splits, yf_price, solver, pyxirr_res, fx_api, forex>>
inputVars == <<trading_df, otherInputs>>
callVars == <<adjusted, xirr_ret, xirr_out, inr_out>>
dashVars == <<all_trades, holdings, stock_splits, currency_rates, converted,
              xirr_results, loaded_trades>>
vars == <<inputVars, callVars, dashVars, pc>>

\* ------------------------------------------------------------------ bounds
MaxTrades == 2
MaxSplits == 2

\* ------------------------------------------------------- rational numbers
Abs(n) == IF n < 0 THEN -n ELSE n

RECURSIVE GCD(_, _)
GCD(a, b) == IF b = 0 THEN a ELSE GCD(b, a % b)

\* n/d in lowest terms with a positive denominator (d # 0)
Norm(n, d) ==
    LET s == IF d < 0 THEN -1 ELSE 1
        g == GCD(Abs(n), Abs(d))
    IN  <<(s * n) \div g, (s * d) \div g>>

Rat(n) == <<n, 1>>
RMul(a, b) == Norm(a[1] * b[1], a[2] * b[2])
RDiv(a, b) == Norm(a[1] * b[2], a[2] * b[1])
RAdd(a, b) == Norm(a[1] * b[2] + b[1] * a[2], a[2] * b[2])
RNeg(a) == <<-a[1], a[2]>>
RSub(a, b) == RAdd(a, RNeg(b))
RAbs(a) == <<Abs(a[1]), a[2]>>
RIsZero(a) == a[1] = 0
RPos(a) == a[1] > 0

\* ------------------------------------------------- binary64 arithmetic
\* The products and quotients of convert_to_currencies are Python floats:
\* IEEE 754 binary64, every operation rounded to nearest, ties to even.  A
\* float is sign * mant * 2^exp with 2^52 <= mant < 2^53 (no subnormals, no
\* overflow: the amounts and rates of the model are far from both).  The
\* mantissa is a natural number written in limbs of 14 bits, least
\* significant first, without leading zero limbs; <<>> is 0.
LimbBits == 14
Base == 2 ^ LimbBits

RECURSIVE BTrim(_)
BTrim(a) ==
    IF a = <<>> THEN a
    ELSE IF a[Len(a)] = 0 THEN BTrim(SubSeq(a, 1, Len(a) - 1)) ELSE a

RECURSIVE BFromInt(_)
BFromInt(n) == IF n = 0 THEN <<>> ELSE <<n % Base>> \o BFromInt(n \div Base)

BLimb(a, i) == IF i \in DOMAIN a THEN a[i] ELSE 0
BZeros(q) == [i \in 1..q |-> 0]

RECURSIVE BAddC(_, _, _, _)
BAddC(a, b, i, c) ==
    IF i > Len(a) /\ i > Len(b)
    THEN IF c = 0 THEN <<>> ELSE <<c>>
    ELSE LET t == BLimb(a, i) + BLimb(b, i) + c
         IN  <<t % Base>> \o BAddC(a, b, i + 1, t \div Base)

BAdd(a, b) == BAddC(a, b, 1, 0)

RECURSIVE BSubC(_, _, _, _)
\* a - b for a >= b
BSubC(a, b, i, borrow) ==
    IF i > Len(a) THEN <<>>
    ELSE LET t == a[i] - BLimb(b, i) - borrow
         IN  IF t < 0 THEN <<t + Base>> \o BSubC(a, b, i + 1, 1)
             ELSE <<t>> \o BSubC(a, b, i + 1, 0)

BSub(a, b) == BTrim(BSubC(a, b, 1, 0))

RECURSIVE BLessAt(_, _, _)
BLessAt(a, b, i) ==
    IF i = 0 THEN FALSE
    ELSE IF a[i] # b[i] THEN a[i] < b[i] ELSE BLessAt(a, b, i - 1)

BLess(a, b) ==
    IF Len(a) # Len(b) THEN Len(a) < Len(b) ELSE BLessAt(a, b, Len(a))

RECURSIVE BColumn(_, _, _, _)
\* sum of a[i] * b[k + 1 - i] over the limbs i, i + 1, ... of a
BColumn(a, b, k, i) ==
    IF i > Len(a) \/ i > k THEN 0
    ELSE a[i] * BLimb(b, k + 1 - i) + BColumn(a, b, k, i + 1)

RECURSIVE BMulC(_, _, _, _)
BMulC(a, b, k, c) ==
    IF k > Len(a) + Len(b) THEN <<>>
    ELSE LET t == BColumn(a, b, k, 1) + c
         IN  <<t % Base>> \o BMulC(a, b, k + 1, t \div Base)

BMul(a, b) == BTrim(BMulC(a, b, 1, 0))

\* number of bits of a natural number below Base, and of a limb sequence
LimbLen(x) == CHOOSE k \in 0..LimbBits : x < 2 ^ k /\ (k = 0 \/ x >= 2 ^ (k - 1))
BitLen(a) ==
    IF a = <<>> THEN 0 ELSE LimbBits * (Len(a) - 1) + LimbLen(a[Len(a)])

\* bit i of a, bit 0 the least significant
BBit(a, i) == (BLimb(a, i \div LimbBits + 1) \div 2 ^ (i % LimbBits)) % 2

\* a * 2^s, floor(a / 2^s), a mod 2^s, 2^s
BShl(a, s) ==
    IF a = <<>> THEN a
    ELSE BZeros(s \div LimbBits) \o BMul(a, <<2 ^ (s % LimbBits)>>)

BShr(a, s) ==
    LET q == s \div LimbBits
        r == s % LimbBits
    IN  BTrim([j \in 1..(Len(a) - q) |->
                  a[j + q] \div 2 ^ r
                  + (BLimb(a, j + q + 1) % 2 ^ r) * 2 ^ (LimbBits - r)])

BLow(a, s) ==
    LET q == s \div LimbBits
        r == s % LimbBits
    IN  BTrim([j \in 1..(q + 1) |->
                  IF j <= q THEN BLimb(a, j) ELSE BLimb(a, j) % 2 ^ r])

BPow2(s) == BZeros(s \div LimbBits) \o <<2 ^ (s % LimbBits)>>

RECURSIVE BDigit(_, _, _, _)
\* the largest g in lo..hi with g * d <= r, by bisection (lo * d <= r)
BDigit(r, d, lo, hi) ==
    IF lo = hi THEN lo
    ELSE LET mid == (lo + hi + 1) \div 2
         IN  IF BLess(r, BMul(d, <<mid>>)) THEN BDigit(r, d, lo, mid - 1)
             ELSE BDigit(r, d, mid, hi)

RECURSIVE BDivFrom(_, _, _)
\* long division in base 2^14: quotient and remainder of the number made of
\* the limbs k, k + 1, ... of n by d
BDivFrom(n, d, k) ==
    IF k > Len(n) THEN [q |-> <<>>, r |-> <<>>]
    ELSE LET prev == BDivFrom(n, d, k + 1)
             r2 == BTrim(<<n[k]>> \o prev.r)
             g == BDigit(r2, d, 0, Base - 1)
         IN  [q |-> BTrim(<<g>> \o prev.q),
              r |-> BSub(r2, BMul(d, BFromInt(g)))]

\* quotient and remainder of n by d
BDivMod(n, d) == BDivFrom(n, d, 1)

\* the 53 leading bits of p rounded to nearest, ties to even; `sticky' says
\* that p is itself the floor of a value with further non-zero bits
RoundMant(p, sticky) ==
    LET s == BitLen(p) - 53
        q == BShr(p, s)
        low == BLow(p, s)
        up == /\ s > 0
              /\ \/ BLess(BPow2(s - 1), low)
                 \/ low = BPow2(s - 1) /\ (sticky \/ BBit(q, 0) = 1)
        m == IF up THEN BAdd(q, <<1>>) ELSE q
    IN  IF BitLen(m) > 53 THEN [mant |-> BShr(m, 1), shift |-> s + 1]
        ELSE [mant |-> m, shift |-> s]

FloatZero == [sign |-> 0, mant |-> <<>>, exp |-> 0]

\* float(n) for an integer n: exact
FloatOfInt(n) ==
    IF n = 0 THEN FloatZero
    ELSE LET m == BFromInt(Abs(n))
             k == 53 - BitLen(m)
         IN  [sign |-> IF n < 0 THEN -1 ELSE 1, mant |-> BShl(m, k),
              exp |-> -k]

\* a * b
FloatMul(a, b) ==
    IF a.sign = 0 \/ b.sign = 0 THEN FloatZero
    ELSE LET r == RoundMant(BMul(a.mant, b.mant), FALSE)
         IN  [sign |-> a.sign * b.sign, mant |-> r.mant,
              exp |-> a.exp + b.exp + r.shift]

\* a / b for b # 0
FloatDiv(a, b) ==
    IF a.sign = 0 THEN FloatZero
    ELSE LET dm == BDivMod(BShl(a.mant, 56), b.mant)
             r == RoundMant(dm.q, dm.r # <<>>)
         IN  [sign |-> a.sign * b.sign, mant |-> r.mant,
              exp |-> a.exp - b.exp - 56 + r.shift]

\* the float a cell or a rate n/d of the model stands for: the float nearest
\* to n/d, as the parse of its decimal text gives
ToFloat(x) ==
    IF x[2] = 1 THEN FloatOfInt(x[1])
    ELSE FloatDiv(FloatOfInt(x[1]), FloatOfInt(x[2]))

\* ------------------------------------------------------------ input values
Symbols == {"X", "Y"}
TradeDates == {0, 2}
SplitDates == {1, 2}
Ratios == {Rat(2), Rat(3)}

\* a missing cell of a numeric column (NaN) and of the currency column
NaN == <<0, 0>>
NaNCurrency == "nan"
IsNa(x) == x[2] = 0

\* the value of a call that has not been made, and of one that returned df
NotCalled == [called |-> FALSE, df |-> <<>>]
Returned(df) == [called |-> TRUE, df |-> df]

\* A trade row.
MkTrade(s, d, q, p, pr, fee, cur) ==
    [Symbol |-> s, Date |-> d, Quantity |-> q, Price |-> p,
     Proceeds |-> pr, Fee |-> fee, Currency |-> cur]

\* The ledgers of the split adjuster are made of two kinds of rows: a buy
\* whose Proceeds is Quantity * T. price (both symbols), and a sale booked
\* with the broker's sign, Proceeds positive for a negative Quantity, so
\* that Proceeds # Quantity * T. price (symbol X).
SplitTrades ==
    { MkTrade(s, d, Rat(10), Rat(6), Rat(60), Rat(0), "USD") :
          s \in Symbols, d \in TradeDates }
    \cup
    { MkTrade("X", d, Rat(-4), Rat(6), Rat(24), Rat(0), "USD") :
          d \in TradeDates }

\* The split events: either ratio for X, the first ratio for Y.
SplitRows ==
    [Symbol : {"X"}, Date : SplitDates, Ratio : Ratios]
    \cup [Symbol : {"Y"}, Date : SplitDates, Ratio : {Rat(2)}]

SeqsUpTo(S, n) == UNION { [1..k -> S] : k \in 0..n }

\* ------------------------------------------ stock_split_handler.apply_splits
\* the mask with <= for <: a trade dated on the split date is adjusted too
SplitMaskInclusive(t, row) == t.Symbol = row.Symbol /\ t.Date <= row.Date

\* mask = (Symbol == symbol) & (Date/time < split_date)
SplitMask(t, row) == t.Symbol = row.Symbol /\ t.Date < row.Date

\* the adjustment without the third assignment: Proceeds is left as it was
AdjustTradeKeepProceeds(t, row) ==
    IF SplitMask(t, row)
    THEN [t EXCEPT !.Quantity = RMul(t.Quantity, row.Ratio),
                   !.Price = RDiv(t.Price, row.Ratio)]
    ELSE t

\* the adjustment with the ratio the wrong way round
AdjustTradeInverted(t, row) ==
    IF SplitMask(t, row)
    THEN LET q == RDiv(t.Quantity, row.Ratio)
             p == RMul(t.Price, row.Ratio)
         IN  [t EXCEPT !.Quantity = q, !.Price = p, !.Proceeds = RMul(q, p)]
    ELSE t

\* the three masked assignments of one loop iteration, for one row
AdjustTrade(t, row) ==
    IF SplitMask(t, row)
    THEN LET q == RMul(t.Quantity, row.Ratio)
             p == RDiv(t.Price, row.Ratio)
         IN  [t EXCEPT !.Quantity = q, !.Price = p, !.Proceeds = RMul(q, p)]
    ELSE t

\* one iteration of `for _, row in split_df.iterrows()`
ApplyOneSplit(df, row) == [i \in DOMAIN df |-> AdjustTrade(df[i], row)]

RECURSIVE ApplySplitsFrom(_, _, _)
ApplySplitsFrom(df, splits, k) ==
    IF k > Len(splits) THEN df
    ELSE ApplySplitsFrom(ApplyOneSplit(df, splits[k]), splits, k + 1)

RECURSIVE ApplyAscendingFrom(_, _, _, _)
ApplyAscendingFrom(df, splits, k, last) ==
    IF k > Len(splits) THEN df
    ELSE IF splits[k].Date < last
         THEN ApplyAscendingFrom(df, splits, k + 1, last)
         ELSE ApplyAscendingFrom(ApplyOneSplit(df, splits[k]), splits, k + 1,
                                 splits[k].Date)

\* apply_splits that relies on the table being in date order: a row dated
\* before the row applied last is passed over
ApplySplitsAscendingOnly(df, splits) == ApplyAscendingFrom(df, splits, 1, 0)

\* apply_splits(trading_df, split_df): works on a copy, rows in table order
ApplySplits(df, splits) == ApplySplitsFrom(df, splits, 1)

\* --------------------------------------------- PortfolioAnalyzer.__init__
EmptyFrame == <<>>
EmptyDict == <<>>

\* --------------------------------------- PortfolioAnalyzer.load_csv_files
required_cols ==
    {"Symbol", "Date", "Quantity", "T. Price", "Currency", "Proceeds", "Comm/Fee"}

\* A csv file: the columns it has and its rows.  A row carries its
\* DataDiscriminator, its 'Date/Time' cell, the text of its Quantity cell
\* when pandas read the column as text (<<>> when the cell is a number),
\* and the trade fields.
MkFile(cols, rows) == [Columns |-> cols, Rows |-> rows]

\* a 'Date/Time' cell: "<date>, <time>", a text that is no date, or empty
DateCell(d) == [kind |-> "date", day |-> d]
TextCell == [kind |-> "text", day |-> 0]
EmptyCell == [kind |-> "nan", day |-> 0]
NaT == -1

MkRow(disc, dt, qtext, t) ==
    [DataDiscriminator |-> disc, DateTime |-> dt, QuantityText |-> qtext,
     Trade |-> t]
OrderRow(t) == MkRow("Order", DateCell(t.Date), <<>>, t)

\* pd.to_datetime(df['Date/Time'].str.split(',').str[0]): the date part of
\* the cell, NaT for an empty cell; a text that is no date raises
ToDatetime(cell) == IF cell.kind = "date" THEN cell.day ELSE NaT

\* str(x).replace(',', '')
RemoveCommas(text) == SelectSeq(text, LAMBDA c : c # ",")

DigitValue ==
    [c \in {"0", "1", "2", "3", "4", "5", "6", "7", "8", "9"} |->
        CASE c = "0" -> 0 [] c = "1" -> 1 [] c = "2" -> 2 [] c = "3" -> 3
          [] c = "4" -> 4 [] c = "5" -> 5 [] c = "6" -> 6 [] c = "7" -> 7
          [] c = "8" -> 8 [] c = "9" -> 9]

RECURSIVE DigitsValue(_, _)
DigitsValue(ds, acc) ==
    IF ds = <<>> THEN acc
    ELSE DigitsValue(Tail(ds), 10 * acc + DigitValue[Head(ds)])

RECURSIVE Pow10(_)
Pow10(k) == IF k = 0 THEN 1 ELSE 10 * Pow10(k - 1)

\* pd.to_numeric(text, errors='coerce') on a text of digits with an
\* optional sign and an optional decimal point: its value; NaN for any
\* other text
ToNumeric(text) ==
    LET neg == text # <<>> /\ Head(text) = "-"
        body == IF neg THEN Tail(text) ELSE text
        digits == SelectSeq(body, LAMBDA c : c # ".")
        dots == Len(body) - Len(digits)
        places == IF dots = 0 THEN 0
                  ELSE Len(body) - (CHOOSE i \in DOMAIN body : body[i] = ".")
    IN  IF /\ digits # <<>>
           /\ dots <= 1
           /\ \A i \in DOMAIN digits : digits[i] \in DOMAIN DigitValue
        THEN Norm((IF neg THEN -1 ELSE 1) * DigitsValue(digits, 0),
                  Pow10(places))
        ELSE NaN

\* the columns of df after lines 46-48
ColumnsOf(file) ==
    IF "Date/Time" \in file.Columns
    THEN file.Columns \cup {"Date", "Time"}
    ELSE file.Columns

\* one row after lines 46-48 and 61-63: Date taken from 'Date/Time' when
\* the file has that column, Quantity cleaned; no other cell is touched
CleanRow(file, row) ==
    [row.Trade EXCEPT
        !.Date = IF "Date/Time" \in file.Columns
                 THEN ToDatetime(row.DateTime) ELSE @,
        !.Quantity = IF row.QuantityText = <<>> THEN @
                     ELSE ToNumeric(RemoveCommas(row.QuantityText))]

\* trade_data = df[df['DataDiscriminator'] == 'Order'], cleaned
TradeData(file) ==
    LET keep == SelectSeq(file.Rows, LAMBDA r : r.DataDiscriminator = "Order")
    IN  [i \in DOMAIN keep |-> CleanRow(file, keep[i])]

\* `if col not in trade_data.columns: return False`, for the first such file
MissingColumn(files) ==
    \E i \in DOMAIN files : ~(required_cols \subseteq ColumnsOf(files[i]))

\* an exception inside the try block: pd.to_datetime on a text that is no
\* date (any row of the file, lines 46-47 run before the filter), or the
\* KeyError of df['DataDiscriminator'] on a file without that column
LoadRaises(files) ==
    \E i \in DOMAIN files :
        \/ /\ "Date/Time" \in files[i].Columns
           /\ \E k \in DOMAIN files[i].Rows :
                  files[i].Rows[k].DateTime.kind = "text"
        \/ "DataDiscriminator" \notin files[i].Columns

RECURSIVE ConcatFrom(_, _)
ConcatFrom(files, k) ==
    IF k > Len(files) THEN <<>>
    ELSE TradeData(files[k]) \o ConcatFrom(files, k + 1)

\* pd.concat(all_data, ignore_index=True)
Concat(files) == ConcatFrom(files, 1)

Perms(n) == { f \in [1..n -> 1..n] : \A i, j \in 1..n : i # j => f[i] # f[j] }

\* sort_values('Date') with the default kind (quicksort): ascending by Date,
\* the order of rows with equal Date is whatever the sort produces; rows
\* without a Date (NaT) come last, in the order they had
SortedByDate(df) ==
    { [i \in DOMAIN df |-> df[f[i]]] : f \in
        { g \in Perms(Len(df)) :
            \A i, j \in DOMAIN df : i < j =>
               IF df[g[j]].Date = NaT
               THEN df[g[i]].Date = NaT => g[i] < g[j]
               ELSE df[g[i]].Date # NaT /\ df[g[i]].Date <= df[g[j]].Date } }

LoadSucceedsUnchecked(files) == Len(files) > 0 /\ ~LoadRaises(files)
\* load_csv_files returns True: every file has the required columns, no
\* line of the try block raises and pd.concat has something to concatenate
LoadSucceeds(files) ==
    Len(files) > 0 /\ ~MissingColumn(files) /\ ~LoadRaises(files)

LoadCsvFiles ==
    /\ pc = "start"
    /\ IF LoadSucceeds(uploaded_files)
       THEN /\ \E sorted \in SortedByDate(Concat(uploaded_files)) :
                 /\ all_trades' = sorted
                 /\ loaded_trades' = sorted
            /\ pc' = "loaded"
       ELSE /\ pc' = "rejected"
            /\ UNCHANGED <<all_trades, loaded_trades>>
    /\ UNCHANGED <<inputVars, callVars, holdings, stock_splits,
                   currency_rates, converted, xirr_results>>

\* -------------------------------- PortfolioAnalyzer.create_master_holdings
RECURSIVE UniqueFrom(_, _, _)
UniqueFrom(df, k, seen) ==
    IF k > Len(df) THEN <<>>
    ELSE IF df[k].Symbol \in seen THEN UniqueFrom(df, k + 1, seen)
    ELSE <<df[k].Symbol>> \o UniqueFrom(df, k + 1, seen \cup {df[k].Symbol})

\* df['Symbol'].unique(): the symbols in order of first appearance
Unique(df) == UniqueFrom(df, 1, {})

\* the rows of one symbol, in table order
SymbolTrades(df, s) == SelectSeq(df, LAMBDA t : t.Symbol = s)

RECURSIVE SumQuantityFrom(_, _)
SumQuantityFrom(rows, k) ==
    IF k > Len(rows) THEN Rat(0)
    ELSE RAdd(rows[k].Quantity, SumQuantityFrom(rows, k + 1))

\* holdings_dict[symbol]['total_quantity']
TotalQuantity(df, s) == SumQuantityFrom(SymbolTrades(df, s), 1)

HoldingRow(df, s) ==
    [Symbol |-> s, Quantity |-> TotalQuantity(df, s),
     Currency |-> SymbolTrades(df, s)[1].Currency,
     Transactions |-> Len(SymbolTrades(df, s))]

\* holdings_list: one row per symbol whose total quantity is not 0
MasterHoldings(df) ==
    LET syms == SelectSeq(Unique(df),
                          LAMBDA s : ~RIsZero(TotalQuantity(df, s)))
    IN  [i \in DOMAIN syms |-> HoldingRow(df, syms[i])]

CreateMasterHoldings ==
    /\ pc = "loaded"
    /\ holdings' = MasterHoldings(all_trades)
    /\ pc' = "holdings"
    /\ UNCHANGED <<inputVars, callVars, all_trades, stock_splits,
                   currency_rates, converted, xirr_results, loaded_trades>>

\* ----------------------------------- PortfolioAnalyzer.fetch_stock_splits
\* ticker.splits of one symbol: the access raised, or a series
YfError == [ok |-> FALSE, series |-> <<>>]
YfSeries(series) == [ok |-> TRUE, series |-> series]

\* splits_data: one entry per symbol of the ledger whose ticker.splits could
\* be read and is not empty, in the order of df['Symbol'].unique()
SplitsData(df, yf) ==
    LET syms == SelectSeq(Unique(df),
                          LAMBDA s : yf[s].ok /\ Len(yf[s].series) > 0)
    IN  [i \in DOMAIN syms |-> [Symbol |-> syms[i], Splits |-> yf[syms[i]].series]]

FetchStockSplits ==
    /\ pc = "holdings"
    /\ stock_splits' = SplitsData(all_trades, yf_splits)
    /\ pc' = "splits_fetched"
    /\ UNCHANGED <<inputVars, callVars, all_trades, holdings,
                   currency_rates, converted, xirr_results, loaded_trades>>

\* ----------------------------------- PortfolioAnalyzer.apply_stock_splits
RECURSIVE ApplySymbolSplitsFrom(_, _, _, _)
\* `for split_date, split_ratio in splits.items()` for one symbol
ApplySymbolSplitsFrom(df, s, splits, k) ==
    IF k > Len(splits) THEN df
    ELSE ApplySymbolSplitsFrom(
             ApplyOneSplit(df, [Symbol |-> s, Date |-> splits[k].Date,
                                Ratio |-> splits[k].Ratio]),
             s, splits, k + 1)

RECURSIVE ApplyStockSplitsFrom(_, _, _)
\* `for symbol, splits in self.stock_splits.items()`
ApplyStockSplitsFrom(df, ss, k) ==
    IF k > Len(ss) THEN df
    ELSE ApplyStockSplitsFrom(
             ApplySymbolSplitsFrom(df, ss[k].Symbol, ss[k].Splits, 1),
             ss, k + 1)

\* apply_stock_splits: `if not self.stock_splits: return`, else both loops
ApplyStockSplitsResult(df, ss) ==
    IF Len(ss) = 0 THEN df ELSE ApplyStockSplitsFrom(df, ss, 1)

ApplyStockSplits ==
    /\ pc = "splits_fetched"
    /\ all_trades' = ApplyStockSplitsResult(all_trades, stock_splits)
    /\ pc' = "splits_applied"
    /\ UNCHANGED <<inputVars, callVars, holdings, stock_splits,
                   currency_rates, converted, xirr_results, loaded_trades>>

\* ------------------------------- stock_split_handler.load_stock_splits
\* the file at `path`: absent, present but not readable as csv, or a table
\* of (Symbol, Date cell, Split Ratio) rows
MissingCsv == [kind |-> "missing", rows |-> <<>>]
UnreadableCsv == [kind |-> "unreadable", rows |-> <<>>]
CsvTable(rows) == [kind |-> "table", rows |-> rows]
CsvSplitRow(s, cell, r) == [Symbol |-> s, Date |-> cell, Ratio |-> r]

\* outcome of load_stock_splits: the frame returned, or an exception
SplitsReturned(df) == [raised |-> FALSE, df |-> df]
SplitsRaised == [raised |-> TRUE, df |-> <<>>]

\* pd.to_datetime(df['Date'], errors='coerce') and dropna(subset=['Date']):
\* the rows whose Date cell holds a date
ParsedSplits(rows) ==
    LET keep == SelectSeq(rows, LAMBDA r : r.Date.kind = "date")
    IN  [i \in DOMAIN keep |->
            [Symbol |-> keep[i].Symbol, Date |-> keep[i].Date.day,
             Ratio |-> keep[i].Ratio]]

LoadStockSplitsUncaught(csv) ==
    IF csv.kind = "table" THEN SplitsReturned(ParsedSplits(csv.rows))
    ELSE SplitsRaised
\* load_stock_splits(path): pd.read_csv raises on a missing or unreadable
\* file; `except Exception` returns an empty frame with the three columns
LoadStockSplits(csv) ==
    IF csv.kind = "table" THEN SplitsReturned(ParsedSplits(csv.rows))
    ELSE SplitsReturned(EmptyFrame)

\* split_df = load_stock_splits()
LoadStockSplitsCall ==
    /\ pc = "load_splits"
    /\ LET out == LoadStockSplits(splits_csv)
       IN  IF out.raised
           THEN pc' = "raised" /\ UNCHANGED split_df
           ELSE pc' = "call" /\ split_df' = out.df
    /\ UNCHANGED <<trading_df, splits_csv, cashflows_arg, uploaded_files,
                   yf_splits, yf_price, solver, pyxirr_res, fx_api, forex,
                   callVars, dashVars>>

\* ------------------------------ stock_split_handler.apply_splits, the call
CallerFrameAliased(df, local) == local
\* `trading_df = trading_df.copy()` / `df = df.copy()`: the function writes
\* to the copy `local`; the frame the caller passed keeps its content df
CallerFrame(df, local) == df

\* adjusted = apply_splits(trading_df, split_df); a run without uploaded
\* files goes on with convert_to_inr, the others with the dashboard
ApplySplitsCall ==
    /\ pc = "call"
    /\ LET out == ApplySplits(trading_df, split_df)
       IN  /\ adjusted' = Returned(out)
           /\ trading_df' = CallerFrame(trading_df, out)
    /\ pc' = IF uploaded_files = <<>> THEN "inr" ELSE "start"
    /\ UNCHANGED <<otherInputs, xirr_ret, xirr_out, inr_out, dashVars>>

\* ------------------------------------------------- xirr_analysis.xnpv/xirr
\* a cash flow (date, amount)
MkFlow(d, a) == [date |-> d, amount |-> a]

\* xnpv: `t0 = cashflows[0][0]`, the date of the first element of the list
AnchorDate(cashflows) == cashflows[1].date

\* xnpv: (t - t0).days for every flow
DayOffsets(cashflows) ==
    [i \in DOMAIN cashflows |-> cashflows[i].date - AnchorDate(cashflows)]

\* xnpv is the same for every rate: all exponents are 0
ConstantNpv(cashflows) ==
    \A i \in DOMAIN cashflows : DayOffsets(cashflows)[i] = 0

\* a flow of amount 0 dated before the first flow of the list: its term of
\* xnpv is 0.0 / (1 + rate) ** e with e < 0
ZeroFlowBeforeAnchor(cashflows) ==
    \E i \in DOMAIN cashflows :
        DayOffsets(cashflows)[i] < 0 /\ RIsZero(cashflows[i].amount)

\* How newton(lambda r: xnpv(r, cashflows), 0.1) can end: it returns a root,
\* raises RuntimeError (no convergence), or xnpv raises under it:
\* OverflowError, or ZeroDivisionError when the iteration runs away and the
\* power under a zero flow dated before the anchor underflows to 0.  On a
\* constant xnpv the secant step has q1 == q0: newton raises RuntimeError,
\* or (scipy before 1.2) returns the midpoint of its two starting points.
SolverOutcomes(cashflows) ==
    IF ConstantNpv(cashflows)
    THEN {"converged", "RuntimeError"}
    ELSE {"converged", "RuntimeError", "OverflowError"}
         \cup (IF ZeroFlowBeforeAnchor(cashflows)
               THEN {"ZeroDivisionError"} ELSE {})

\* values of xirr: a rate (the root found for these cash flows), None
RateOf(cashflows) ==
    [kind |-> "rate", of |-> cashflows, scale |-> 1, exc |-> ""]
NoneValue == [kind |-> "None", of |-> <<>>, scale |-> 1, exc |-> ""]
Raised(e) == [kind |-> "raised", of |-> <<>>, scale |-> 1, exc |-> e]

\* xirr(cashflows): `except (RuntimeError, OverflowError): return None`;
\* with no cash flow, cashflows[0] in xnpv raises IndexError
Xirr(cashflows, outcome) ==
    IF Len(cashflows) = 0 THEN Raised("IndexError")
    ELSE IF outcome = "converged" THEN RateOf(cashflows)
    ELSE IF outcome \in {"RuntimeError", "OverflowError"} THEN NoneValue
    ELSE Raised(outcome)

\* ----------------------------------------- xirr_analysis.calculate_xirr
RECURSIVE MaxDateFrom(_, _)
MaxDateFrom(rows, k) ==
    IF k = Len(rows) THEN rows[k].Date
    ELSE LET m == MaxDateFrom(rows, k + 1)
         IN  IF rows[k].Date > m THEN rows[k].Date ELSE m

\* trades['Date/time'].max()
LastDate(rows) == MaxDateFrom(rows, 1)

\* cashflows.append((date, -(Proceeds - Comm/fee))) for every row
TradeFlows(rows) ==
    [i \in DOMAIN rows |->
        MkFlow(rows[i].Date, RNeg(RSub(rows[i].Proceeds, rows[i].Fee)))]

\* the cash flows calculate_xirr builds for one symbol of df
Cashflows(df, s) ==
    LET rows == SymbolTrades(df, s)
        holding == SumQuantityFrom(rows, 1)
    IN  IF ~RIsZero(holding)
        THEN Append(TradeFlows(rows), MkFlow(LastDate(rows), Rat(0)))
        ELSE TradeFlows(rows)

\* outcome of a call: returned results (a mapping), or an exception
CallPending == [called |-> FALSE, kind |-> "pending", results |-> <<>>,
                exc |-> ""]
CallReturned(res) == [called |-> TRUE, kind |-> "returned", results |-> res,
                      exc |-> ""]
CallRaised(e) == [called |-> TRUE, kind |-> "raised", results |-> <<>>,
                  exc |-> e]

\* results[symbol] = rate
WithKey(res, s, v) ==
    [k \in DOMAIN res \cup {s} |-> IF k = s THEN v ELSE res[k]]

RECURSIVE CalculateXirrFrom(_, _, _, _, _)
\* `for symbol in df['Symbol'].unique()`; an exception xirr lets through
\* ends the call
CalculateXirrFrom(df, sv, syms, k, res) ==
    IF k > Len(syms) THEN CallReturned(res)
    ELSE IF Len(TradeFlows(SymbolTrades(df, syms[k]))) = 0    \* `if cashflows:`
         THEN CalculateXirrFrom(df, sv, syms, k + 1, res)
    ELSE LET flows == Cashflows(df, syms[k])
             rate == Xirr(flows, sv[syms[k]])
         IN  IF rate.kind = "raised" THEN CallRaised(rate.exc)
             ELSE IF rate.kind = "rate"
                  THEN CalculateXirrFrom(df, sv, syms, k + 1,
                                         WithKey(res, syms[k], rate))
                  ELSE CalculateXirrFrom(df, sv, syms, k + 1, res)

\* calculate_xirr(df)
CalculateXirr(df, sv) == CalculateXirrFrom(df, sv, Unique(df), 1, <<>>)

\* ---------------------------------- xirr_analysis: the two calls
XirrCall ==
    /\ pc = "xirr"
    /\ xirr_ret' = [called |-> TRUE,
                    ret |-> Xirr(cashflows_arg, solver["arg"])]
    /\ pc' = "xirr_done"
    /\ UNCHANGED <<inputVars, adjusted, xirr_out, inr_out, dashVars>>

CalculateXirrCall ==
    /\ pc = "calc"
    /\ xirr_out' = CalculateXirr(trading_df, solver)
    /\ pc' = "calc_done"
    /\ UNCHANGED <<inputVars, adjusted, xirr_ret, inr_out, dashVars>>

\* ---------------------------------- PortfolioAnalyzer.fetch_currency_rates
\* the rates are floats: 1.0, 83.0, 1.35, 0.85, 0.75
fallback_rates ==
    [c \in {"USD", "INR", "SGD", "EUR", "GBP"} |->
        CASE c = "USD" -> ToFloat(Rat(1))
          [] c = "INR" -> ToFloat(Rat(83))
          [] c = "SGD" -> ToFloat(Norm(135, 100))
          [] c = "EUR" -> ToFloat(Norm(85, 100))
          [] c = "GBP" -> ToFloat(Norm(75, 100))]

\* the answer of the rates request: status 200 with a rates table, another
\* status, or an exception (timeout, malformed body)
ApiOk(rates) == [kind |-> "ok", rates |-> rates]
ApiStatus == [kind |-> "status", rates |-> <<>>]
ApiException == [kind |-> "exception", rates |-> <<>>]

\* self.currency_rates after fetch_currency_rates(base_currency='USD')
FetchedRates(api) ==
    IF api.kind = "ok"
    THEN [c \in DOMAIN api.rates \cup {"USD"} |->
             IF c = "USD" THEN ToFloat(Rat(1)) ELSE api.rates[c]]
    ELSE fallback_rates

FetchCurrencyRates ==
    /\ pc = "splits_applied"
    /\ currency_rates' = FetchedRates(fx_api)
    /\ pc' = "rates_fetched"
    /\ UNCHANGED <<inputVars, callVars, all_trades, holdings, stock_splits,
                   converted, xirr_results, loaded_trades>>

\* ---------------------------------- PortfolioAnalyzer.convert_to_currencies
currencies == <<"USD", "INR", "SGD">>

\* self.currency_rates.get(row['Currency'], 1)
RatesGet(rates, c) == IF c \in DOMAIN rates THEN rates[c] ELSE FloatOfInt(1)

\* the lambda of both apply calls, for one value x of one row: a float
\* product, for a row not in USD divided by the rate of the row's currency
ConvertValue(x, t, rates, cur) ==
    IF t.Currency = "USD" THEN FloatMul(ToFloat(x), rates[cur])
    ELSE FloatDiv(FloatMul(ToFloat(x), rates[cur]),
                  RatesGet(rates, t.Currency))

\* the columns Proceeds_<cur> and Price_<cur> of one row, for the currencies
\* of the list that have a rate
ConvertedRow(t, rates) ==
    [cur \in { currencies[i] : i \in DOMAIN currencies } \cap DOMAIN rates |->
        [Proceeds |-> ConvertValue(t.Proceeds, t, rates, cur),
         Price |-> ConvertValue(t.Price, t, rates, cur)]]

ConvertToCurrencies ==
    /\ pc = "rates_fetched"
    /\ converted' = [i \in DOMAIN all_trades |->
                        ConvertedRow(all_trades[i], currency_rates)]
    /\ pc' = "processed"
    /\ UNCHANGED <<inputVars, callVars, all_trades, holdings, stock_splits,
                   currency_rates, xirr_results, loaded_trades>>

\* ------------------------------------- PortfolioAnalyzer.calculate_xirr
\* datetime.now(), later than every trade of the ledger
Now == 99

\* ticker.info.get('currentPrice', 0): the access raised, or a price
PriceError == [ok |-> FALSE, price |-> Rat(0)]
PriceIs(p) == [ok |-> TRUE, price |-> p]

\* -Proceeds for a row with Quantity > 0, abs(Proceeds) otherwise
AppTradeFlows(rows) ==
    [i \in DOMAIN rows |->
        MkFlow(rows[i].Date,
               IF RPos(rows[i].Quantity) THEN RNeg(rows[i].Proceeds)
               ELSE RAbs(rows[i].Proceeds))]

\* self.holdings[self.holdings['Symbol'] == symbol]
CurrentHolding(hold, s) == SelectSeq(hold, LAMBDA h : h.Symbol = s)

\* dates / cash_flows of one symbol: the trades, then the position's value
\* today when the holding is positive and a positive current price was read
AppCashflows(df, hold, price, s) ==
    LET base == AppTradeFlows(SymbolTrades(df, s))
        cur == CurrentHolding(hold, s)
    IN  IF /\ Len(cur) > 0
           /\ RPos(cur[1].Quantity)
           /\ price.ok
           /\ RPos(price.price)
        THEN Append(base, MkFlow(Now, RMul(cur[1].Quantity, price.price)))
        ELSE base

\* pyxirr.xirr(dates, cash_flows) inside try / except: a value * 100, or None
AppXirrValue(flows, outcome) ==
    IF outcome = "value"
    THEN [kind |-> "rate", of |-> flows, scale |-> 100, exc |-> ""]
    ELSE NoneValue

RECURSIVE AppCalculateXirrFrom(_, _, _, _, _, _, _)
\* `for symbol in self.holdings['Symbol'].unique()`
AppCalculateXirrFrom(df, hold, pyx, price, syms, k, res) ==
    IF k > Len(syms) THEN res
    ELSE IF Len(SymbolTrades(df, syms[k])) < 2
         THEN AppCalculateXirrFrom(df, hold, pyx, price, syms, k + 1, res)
    ELSE LET flows == AppCashflows(df, hold, price, syms[k])
         IN  IF Len(flows) >= 2
             THEN AppCalculateXirrFrom(df, hold, pyx, price, syms, k + 1,
                      WithKey(res, syms[k], AppXirrValue(flows, pyx[syms[k]])))
             ELSE AppCalculateXirrFrom(df, hold, pyx, price, syms, k + 1, res)

\* calculate_xirr(): an empty holdings frame has no 'Symbol' column, the
\* KeyError is caught by the outer except and {} is returned
AppCalculateXirr(df, hold, pyx, price) ==
    IF Len(hold) = 0 THEN <<>>
    ELSE AppCalculateXirrFrom(df, hold, pyx, price, Unique(hold), 1, <<>>)

\* the XIRR tab's button, shown once the data is processed
CalculateXirrTab ==
    /\ pc = "processed"
    /\ xirr_results' = AppCalculateXirr(all_trades, holdings, pyxirr_res,
                                         yf_price)
    /\ pc' = "xirr_done"
    /\ UNCHANGED <<inputVars, callVars, all_trades, holdings, stock_splits,
                   currency_rates, converted, loaded_trades>>

\* ------------------------------------ currency_converter.convert_to_inr

\* c.get_rate(base_currency, 'INR'): a rate, or an exception
FxRaise == [ok |-> FALSE, rate |-> Rat(0)]
FxRate(r) == [ok |-> TRUE, rate |-> r]

\* one pass of the loop body: the row's 'INR Amount' and whether get_rate
\* was called for it.  The column starts at 0.0; a skipped row keeps that.
ConvertRowToInr(row, fx) ==
    IF row.Currency = NaNCurrency \/ IsNa(row.Proceeds)
    THEN [row |-> row, INRAmount |-> Rat(0), get_rate |-> FALSE]
    ELSE IF row.Currency = "INR"
    THEN [row |-> row, INRAmount |-> row.Proceeds, get_rate |-> FALSE]
    ELSE IF row.Currency \in DOMAIN fx /\ fx[row.Currency].ok
    THEN [row |-> row,
          INRAmount |-> RMul(row.Proceeds, fx[row.Currency].rate),
          get_rate |-> TRUE]
    ELSE [row |-> row, INRAmount |-> NaN, get_rate |-> TRUE]

\* convert_to_inr(df)
ConvertToInr(df, fx) == [i \in DOMAIN df |-> ConvertRowToInr(df[i], fx)]

ConvertToInrCall ==
    /\ pc = "inr"
    /\ LET out == ConvertToInr(trading_df, forex)
       IN  /\ inr_out' = Returned(out)
           /\ trading_df' = CallerFrame(trading_df, out)
    /\ pc' = "inr_done"
    /\ UNCHANGED <<otherInputs, adjusted, xirr_ret, xirr_out, dashVars>>

\* ------------------------------------------ the split adjuster: its inputs
\* ticker.splits of a symbol: a series indexed by date, ascending, one
\* ratio per date.  The provider reports the events of the split table.
RowsOfSymbol(splits, s) == SelectSeq(splits, LAMBDA r : r.Symbol = s)

LastRatioAt(rows, d) ==
    LET idx == { i \in DOMAIN rows : rows[i].Date = d }
        last == CHOOSE i \in idx : \A j \in idx : j <= i
    IN  rows[last].Ratio

RECURSIVE SeriesFrom(_, _)
SeriesFrom(rows, dates) ==
    IF dates = {} THEN <<>>
    ELSE LET d == CHOOSE x \in dates : \A y \in dates : x <= y
         IN  <<[Date |-> d, Ratio |-> LastRatioAt(rows, d)]>>
             \o SeriesFrom(rows, dates \ {d})

TickerSplits(splits, s) ==
    LET rows == RowsOfSymbol(splits, s)
    IN  SeriesFrom(rows, { rows[i].Date : i \in DOMAIN rows })

\* nothing called, nothing processed
NoCalls ==
    /\ adjusted = NotCalled
    /\ xirr_ret = [called |-> FALSE, ret |-> NoneValue]
    /\ xirr_out = CallPending
    /\ inr_out = NotCalled

FreshAnalyzer ==
    /\ all_trades = EmptyFrame
    /\ holdings = EmptyFrame
    /\ stock_splits = EmptyDict
    /\ currency_rates = EmptyDict
    /\ converted = EmptyFrame
    /\ xirr_results = EmptyDict
    /\ loaded_trades = EmptyFrame

\* the services a run does not reach
NoXirrInputs ==
    /\ cashflows_arg = <<>>
    /\ solver = [s \in Symbols |-> "converged"]
    /\ pyxirr_res = [s \in Symbols |-> "value"]
    /\ yf_price = PriceError

NoFxInputs ==
    /\ fx_api = ApiException
    /\ forex = [c \in {"USD", "EUR"} |-> FxRaise]

\* the rows of the split file: an event of X, one of Y, and a row whose
\* Date is no date
CsvSplitRows ==
    { CsvSplitRow("X", DateCell(1), Rat(2)),
      CsvSplitRow("Y", DateCell(2), Rat(2)),
      CsvSplitRow("X", TextCell, Rat(3)) }

\* the split file of a run that starts with load_stock_splits
SplitsCsvs ==
    {MissingCsv, UnreadableCsv}
    \cup { CsvTable(rows) : rows \in SeqsUpTo(CsvSplitRows, MaxSplits) }

\* a split table as the file it was read from
AsCsv(df) ==
    CsvTable([i \in DOMAIN df |->
                 CsvSplitRow(df[i].Symbol, DateCell(df[i].Date), df[i].Ratio)])

\* a run is apply_splits on a given split table followed by a dashboard run
\* on the same events, or load_stock_splits, apply_splits on what it
\* returned and a dashboard run for which yfinance reports no split
InitSplit ==
    /\ trading_df \in SeqsUpTo(SplitTrades, MaxTrades)
    /\ \/ /\ pc = "call"
          /\ split_df \in SeqsUpTo(SplitRows, MaxSplits)
          /\ splits_csv = AsCsv(split_df)
          /\ yf_splits = [s \in Symbols |-> YfSeries(TickerSplits(split_df, s))]
       \/ /\ pc = "load_splits"
          /\ split_df = EmptyFrame
          /\ splits_csv \in SplitsCsvs
          /\ yf_splits = [s \in Symbols |-> YfSeries(<<>>)]
    /\ NoCalls
    /\ FreshAnalyzer
    /\ NoXirrInputs
    /\ NoFxInputs
    /\ uploaded_files =
         <<MkFile(required_cols \cup {"DataDiscriminator"},
                  [i \in DOMAIN trading_df |-> OrderRow(trading_df[i])])>>

NextSplit ==
    \/ LoadStockSplitsCall
    \/ ApplySplitsCall
    \/ LoadCsvFiles
    \/ CreateMasterHoldings
    \/ FetchStockSplits
    \/ ApplyStockSplits

SpecSplit == InitSplit /\ [][NextSplit]_vars

\* ---------------------------------------------- the XIRR runs: their inputs
MaxFlows == 3
MaxXirrTrades == 3

\* (date, amount) pairs handed to xirr directly
FlowSet ==
    { MkFlow(d, a) : d \in TradeDates, a \in {Rat(-100), Rat(0), Rat(110)} }

\* Ledger rows of the XIRR runs: a buy and a sale with a fee, and a row of
\* quantity 0 and no value (symbol X); a buy (symbol Y).
XirrTrades ==
    { MkTrade(s, d, Rat(10), Rat(10), Rat(100), Rat(1), "USD") :
          s \in Symbols, d \in TradeDates }
    \cup
    { MkTrade("X", d, Rat(-10), Rat(12), Rat(-120), Rat(1), "USD") :
          d \in TradeDates }
    \cup
    { MkTrade("X", d, Rat(0), Rat(0), Rat(0), Rat(0), "USD") :
          d \in TradeDates }

\* a rates table the service answers with
ApiRates ==
    [c \in {"INR", "SGD"} |->
        IF c = "INR" THEN ToFloat(Rat(84)) ELSE ToFloat(Norm(134, 100))]

\* a direct call xirr(cashflows)
InitXirrCall ==
    /\ pc = "xirr"
    /\ cashflows_arg \in SeqsUpTo(FlowSet, MaxFlows)
    /\ \E o \in IF cashflows_arg = <<>> THEN {"converged"}
                ELSE SolverOutcomes(cashflows_arg) :
           solver = [k \in {"arg"} |-> o]
    /\ trading_df = EmptyFrame
    /\ uploaded_files = <<>>
    /\ pyxirr_res = [s \in Symbols |-> "value"]
    /\ yf_price = PriceError

\* a call calculate_xirr(df) of the module: the root finder's outcome per
\* symbol is one its cash flows allow
InitCalculateXirrCall ==
    /\ pc = "calc"
    /\ trading_df \in SeqsUpTo(XirrTrades, MaxXirrTrades)
    /\ solver \in [Symbols -> {"converged", "RuntimeError", "OverflowError",
                               "ZeroDivisionError"}]
    /\ \A s \in Symbols :
          IF SymbolTrades(trading_df, s) = <<>>
          THEN solver[s] = "converged"
          ELSE solver[s] \in SolverOutcomes(Cashflows(trading_df, s))
    /\ cashflows_arg = <<>>
    /\ uploaded_files = <<>>
    /\ pyxirr_res = [s \in Symbols |-> "value"]
    /\ yf_price = PriceError

\* a dashboard run up to the XIRR tab: one uploaded file, pyxirr's answer
\* for the symbols it is called for, the current price yfinance reports
InitDashboardXirr ==
    /\ pc = "start"
    /\ trading_df \in SeqsUpTo(XirrTrades, MaxTrades)
    /\ uploaded_files =
         <<MkFile(required_cols \cup {"DataDiscriminator"},
                  [i \in DOMAIN trading_df |-> OrderRow(trading_df[i])])>>
    /\ pyxirr_res \in [Symbols -> {"value", "None", "raise"}]
    /\ \A s \in Symbols :
          Len(SymbolTrades(trading_df, s)) < 2 => pyxirr_res[s] = "value"
    /\ yf_price \in {PriceError, PriceIs(Rat(0)), PriceIs(Rat(12))}
    /\ cashflows_arg = <<>>
    /\ solver = [s \in Symbols |-> "converged"]

\* The end-to-end ledger: X bought 10 @ 10 on days 0, 30 and 60 and sold
\* 30 @ 12 on day 90, Proceeds = Quantity * T. Price, no fee, in USD.
ScenarioLedger ==
    <<MkTrade("X", 0, Rat(10), Rat(10), Rat(100), Rat(0), "USD"),
      MkTrade("X", 30, Rat(10), Rat(10), Rat(100), Rat(0), "USD"),
      MkTrade("X", 60, Rat(10), Rat(10), Rat(100), Rat(0), "USD"),
      MkTrade("X", 90, Rat(-30), Rat(12), Rat(-360), Rat(0), "USD")>>

\* three monthly files, the sale in the last one
ScenarioFiles ==
    <<MkFile(required_cols \cup {"DataDiscriminator"},
             <<OrderRow(ScenarioLedger[1])>>),
      MkFile(required_cols \cup {"DataDiscriminator"},
             <<OrderRow(ScenarioLedger[2])>>),
      MkFile(required_cols \cup {"DataDiscriminator"},
             <<OrderRow(ScenarioLedger[3]), OrderRow(ScenarioLedger[4])>>)>>

\* the end-to-end scenario, as a call calculate_xirr(df) of the module and
\* as a dashboard run; newton converges on these cash flows (to 1.98)
InitScenario ==
    /\ trading_df = ScenarioLedger
    /\ \/ pc = "calc" /\ uploaded_files = <<>>
       \/ pc = "start" /\ uploaded_files = ScenarioFiles
    /\ solver = [s \in Symbols |-> "converged"]
    /\ pyxirr_res = [s \in Symbols |-> "value"]
    /\ yf_price \in {PriceError, PriceIs(Rat(12))}
    /\ cashflows_arg = <<>>

InitXirr ==
    /\ \/ InitXirrCall
       \/ InitCalculateXirrCall
       \/ InitDashboardXirr
       \/ InitScenario
    /\ split_df = <<>>
    /\ splits_csv = MissingCsv
    /\ yf_splits = [s \in Symbols |-> YfSeries(<<>>)]
    /\ fx_api \in {ApiOk(ApiRates), ApiException}
    /\ (pc # "start" => fx_api = ApiException)
    /\ forex = [c \in {"USD", "EUR"} |-> FxRaise]
    /\ NoCalls
    /\ FreshAnalyzer

NextXirr ==
    \/ XirrCall
    \/ CalculateXirrCall
    \/ LoadCsvFiles
    \/ CreateMasterHoldings
    \/ FetchStockSplits
    \/ ApplyStockSplits
    \/ FetchCurrencyRates
    \/ ConvertToCurrencies
    \/ CalculateXirrTab

SpecXirr == InitXirr /\ [][NextXirr]_vars

\* ------------------------------------ the currency runs: their inputs
\* rows of convert_to_inr, with and without a currency and an amount
CurrencyTrades ==
    { MkTrade("X", 0, Rat(1), Rat(1), pr, Rat(0), cur) :
          pr \in {Rat(5), Norm(11, 100), NaN},
          cur \in {"INR", "USD", "EUR", NaNCurrency} }

\* a call convert_to_inr(df)
InitConvertToInrCall ==
    /\ pc = "inr"
    /\ trading_df \in SeqsUpTo(CurrencyTrades, MaxTrades)
    /\ forex \in [{"USD", "EUR"} -> {FxRaise, FxRate(Rat(83))}]
    /\ fx_api = ApiException
    /\ uploaded_files = <<>>
    /\ yf_splits = [s \in Symbols |-> YfSeries(<<>>)]

\* ledger rows of the dashboard's conversion: amounts 5.0 and 0.11, booked
\* in USD and in INR
DashboardCurrencyTrades ==
    { MkTrade("X", 0, Rat(10), Rat(1), pr, Rat(0), cur) :
          pr \in {Rat(5), Norm(11, 100)}, cur \in {"USD", "INR"} }

\* what yfinance reports for the dashboard's symbols: no split, or a
\* 2-for-1 split of X after its trades
DashboardTickerSplits ==
    { [s \in Symbols |-> YfSeries(<<>>)],
      [s \in Symbols |->
          IF s = "X" THEN YfSeries(<<[Date |-> 1, Ratio |-> Rat(2)]>>)
          ELSE YfSeries(<<>>)] }

\* a dashboard run up to the conversion: one uploaded file, the splits
\* yfinance reports, the rates service answering or not
InitDashboardCurrency ==
    /\ pc = "start"
    /\ trading_df \in SeqsUpTo(DashboardCurrencyTrades, MaxTrades)
    /\ uploaded_files =
         <<MkFile(required_cols \cup {"DataDiscriminator"},
                  [i \in DOMAIN trading_df |-> OrderRow(trading_df[i])])>>
    /\ fx_api \in {ApiOk(ApiRates), ApiStatus, ApiException}
    /\ forex = [c \in {"USD", "EUR"} |-> FxRaise]
    /\ yf_splits \in DashboardTickerSplits

InitCurrency ==
    /\ \/ InitConvertToInrCall
       \/ InitDashboardCurrency
    /\ split_df = <<>>
    /\ splits_csv = MissingCsv
    /\ NoXirrInputs
    /\ NoCalls
    /\ FreshAnalyzer

NextCurrency ==
    \/ ConvertToInrCall
    \/ LoadCsvFiles
    \/ CreateMasterHoldings
    \/ FetchStockSplits
    \/ ApplyStockSplits
    \/ FetchCurrencyRates
    \/ ConvertToCurrencies

SpecCurrency == InitCurrency /\ [][NextCurrency]_vars

\* =================================================== the split adjuster
\* the rows of a dashboard split dictionary, as (Symbol, Date, Ratio) rows
RECURSIVE DictRowsFrom(_, _)
DictRowsFrom(ss, k) ==
    IF k > Len(ss) THEN <<>>
    ELSE [i \in DOMAIN ss[k].Splits |->
              [Symbol |-> ss[k].Symbol, Date |-> ss[k].Splits[i].Date,
               Ratio |-> ss[k].Splits[i].Ratio]]
         \o DictRowsFrom(ss, k + 1)
DictRows == DictRowsFrom(stock_splits, 1)

\* a split row matches a trade: same symbol, trade strictly earlier
Matches(t, row) == t.Symbol = row.Symbol /\ t.Date < row.Date
MatchedBySome(t, rows) == \E k \in DOMAIN rows : Matches(t, rows[k])
Rederived(t) == t.Proceeds = RMul(t.Quantity, t.Price)

\* C1 as stated: after apply_splits, and after apply_stock_splits, every
\* trade has Proceeds = Quantity * T. price, the trades no split matched
\* included.
C1_EveryTradeRederived ==
    /\ adjusted.called =>
         \A i \in DOMAIN adjusted.df : Rederived(adjusted.df[i])
    /\ pc = "splits_applied" =>
         \A i \in DOMAIN all_trades : Rederived(all_trades[i])

\* C1 amended: every trade that at least one split matched has
\* Proceeds = Quantity * T. price after the adjustment; a trade no split
\* matched keeps the Proceeds it came with.
C1_MatchedTradesRederived ==
    /\ adjusted.called =>
         \A i \in DOMAIN adjusted.df :
            IF MatchedBySome(trading_df[i], split_df)
            THEN Rederived(adjusted.df[i])
            ELSE adjusted.df[i].Proceeds = trading_df[i].Proceeds
    /\ pc = "splits_applied" =>
         \A i \in DOMAIN all_trades :
            IF MatchedBySome(loaded_trades[i], DictRows)
            THEN Rederived(all_trades[i])
            ELSE all_trades[i].Proceeds = loaded_trades[i].Proceeds

\* C1 witness: both adjusters have run on a ledger in which a split matched
\* a trade whose Proceeds was not Quantity * T. price, and missed another.
C1_Witness ==
    /\ adjusted.called
    /\ pc = "splits_applied"
    /\ \E i, j \in DOMAIN trading_df :
          /\ MatchedBySome(trading_df[i], split_df)
          /\ ~Rederived(trading_df[i])
          /\ ~MatchedBySome(trading_df[j], split_df)
    /\ \E i, j \in DOMAIN loaded_trades :
          /\ MatchedBySome(loaded_trades[i], DictRows)
          /\ ~Rederived(loaded_trades[i])
          /\ ~MatchedBySome(loaded_trades[j], DictRows)

\* C2: with a single split event (s, d, k), exactly the trades of symbol s
\* dated strictly before d have Quantity multiplied by k and T. price
\* divided by k; every other trade keeps its Quantity and T. price.
C2_SingleSplit ==
    /\ (adjusted.called /\ Len(split_df) = 1) =>
         \A i \in DOMAIN adjusted.df :
            LET t == trading_df[i]
                a == adjusted.df[i]
                e == split_df[1]
            IN  IF t.Symbol = e.Symbol /\ t.Date < e.Date
                THEN /\ a.Quantity = RMul(t.Quantity, e.Ratio)
                     /\ RMul(a.Price, e.Ratio) = t.Price
                ELSE a.Quantity = t.Quantity /\ a.Price = t.Price
    /\ (pc = "splits_applied" /\ Len(DictRows) = 1) =>
         \A i \in DOMAIN all_trades :
            LET t == loaded_trades[i]
                a == all_trades[i]
                e == DictRows[1]
            IN  IF t.Symbol = e.Symbol /\ t.Date < e.Date
                THEN /\ a.Quantity = RMul(t.Quantity, e.Ratio)
                     /\ RMul(a.Price, e.Ratio) = t.Price
                ELSE a.Quantity = t.Quantity /\ a.Price = t.Price

\* C2 witness: one split event, met by a trade it adjusts, a trade of its
\* symbol dated on the split date and a trade of the other symbol.
C2_Witness ==
    /\ adjusted.called
    /\ pc = "splits_applied"
    /\ Len(split_df) = 1 /\ Len(DictRows) = 1
    /\ \E i, j \in DOMAIN trading_df :
          /\ Matches(trading_df[i], split_df[1])
          /\ trading_df[j].Symbol = split_df[1].Symbol
          /\ trading_df[j].Date >= split_df[1].Date

NoOpSplit(row, df) ==
    \A i \in DOMAIN df : df[i].Symbol = row.Symbol => row.Date <= df[i].Date

\* C4: a split event dated at or before the earliest trade of its symbol,
\* or of a symbol without trades, raises nothing and changes no field of
\* any trade: with only such events the result is the input ledger, and
\* among other events the result is the one obtained without them.
C4_NoOpSplitsLeaveLedger ==
    /\ adjusted.called =>
         /\ (\A k \in DOMAIN split_df : NoOpSplit(split_df[k], trading_df))
               => adjusted.df = trading_df
         /\ adjusted.df =
               ApplySplits(trading_df,
                   SelectSeq(split_df,
                             LAMBDA r : ~NoOpSplit(r, trading_df)))
    /\ pc = "splits_applied" =>
         ((\A k \in DOMAIN DictRows : NoOpSplit(DictRows[k], loaded_trades))
               => all_trades = loaded_trades)

\* C4 witness: both adjusters have run with a split dated on the earliest
\* trade date of its symbol and a split of a symbol without trades.
C4_Witness ==
    /\ adjusted.called
    /\ pc = "splits_applied"
    /\ Len(trading_df) > 0
    /\ Len(DictRows) > 0
    /\ \A k \in DOMAIN split_df : NoOpSplit(split_df[k], trading_df)
    /\ \E k \in DOMAIN split_df : \E i \in DOMAIN trading_df :
          /\ trading_df[i].Symbol = split_df[k].Symbol
          /\ trading_df[i].Date = split_df[k].Date
    /\ \E k \in DOMAIN split_df : \A i \in DOMAIN trading_df :
          trading_df[i].Symbol # split_df[k].Symbol

\* ----------------------------------------------------------------- XIRR
\* the symbols of a ledger
SymbolsOf(df) == { df[i].Symbol : i \in DOMAIN df }

\* the result of one symbol in a returned mapping is absent
Absent(results, s) == s \notin DOMAIN results

\* C5: the XIRR engine, given fewer than 2 cash flows, returns absence and
\* never a numeric rate: a direct call xirr(cashflows) with 0 or 1 flows
\* returns None (it neither raises nor returns a rate), and no symbol of a
\* calculate_xirr result carries a rate computed from fewer than 2 flows.
\* (The reason insufficient_data has no representation in the code: None is
\* the only value of absence.)
C5_FewFlowsReturnAbsence ==
    /\ (xirr_ret.called /\ Len(cashflows_arg) < 2)
          => xirr_ret.ret.kind = "None"
    /\ xirr_out.kind = "returned"
          => \A s \in DOMAIN xirr_out.results :
                 Len(xirr_out.results[s].of) >= 2

\* a symbol of the ledger handed to calculate_xirr with fewer than 2 cash
\* flows, and one with at least 2 on which the root finder did not converge
InsufficientData(s) ==
    /\ s \in SymbolsOf(trading_df)
    /\ Len(Cashflows(trading_df, s)) < 2

NoConvergence(s) ==
    /\ s \in SymbolsOf(trading_df)
    /\ Len(Cashflows(trading_df, s)) >= 2
    /\ solver[s] \in {"RuntimeError", "OverflowError"}

\* C6: from the returned result the caller can tell insufficient data from
\* non-convergence: no returned mapping of calculate_xirr represents a
\* symbol absent for the first reason and a symbol absent for the second
\* reason in the same way (here: both keys omitted).
C6_ReasonsDistinguishable ==
    xirr_out.kind = "returned"
       => ~ \E s1, s2 \in Symbols :
              /\ InsufficientData(s1)
              /\ NoConvergence(s2)
              /\ Absent(xirr_out.results, s1)
              /\ Absent(xirr_out.results, s2)

\* the ledger without the rows of symbol f
WithoutSymbol(df, f) == SelectSeq(df, LAMBDA t : t.Symbol # f)

IsSpecifiedSeries(flows, rows) ==
    LET n == Len(rows)
        open == ~RIsZero(SumQuantityFrom(rows, 1))
    IN  /\ Len(flows) = IF open THEN n + 1 ELSE n
        /\ \A i \in 1..n :
              /\ flows[i].date = rows[i].Date
              /\ flows[i].amount = RNeg(RSub(rows[i].Proceeds, rows[i].Fee))
        /\ open => flows[n + 1].date = LastDate(rows)

\* C8: the cash-flow series built for a symbol has one flow per trade, dated
\* at the trade and of amount -(proceeds - fee), and one more flow dated at
\* the last trade exactly when the quantities of the symbol do not sum to 0.
\* Checked on every series a rate was computed from, by either builder.
C8_SeriesAsSpecified ==
    /\ xirr_out.kind = "returned"
          => \A s \in DOMAIN xirr_out.results :
                 IsSpecifiedSeries(xirr_out.results[s].of,
                                   SymbolTrades(trading_df, s))
    /\ pc = "xirr_done"
          => \A s \in DOMAIN xirr_results :
                 xirr_results[s].kind = "rate"
                    => IsSpecifiedSeries(xirr_results[s].of,
                                         SymbolTrades(all_trades, s))

\* C9: a symbol with fewer than 2 trades in the ledger is never a key of the
\* XIRR result mapping, of the module or of the dashboard.
C9_FewTradesNeverKeyed ==
    /\ xirr_out.kind = "returned"
          => \A s \in DOMAIN xirr_out.results :
                 Len(SymbolTrades(trading_df, s)) >= 2
    /\ pc = "xirr_done"
          => \A s \in DOMAIN xirr_results :
                 Len(SymbolTrades(all_trades, s)) >= 2

\* ------------------------------------------------------------- currency
\* C10: for every row whose currency is the target currency the normalized
\* amount is the row's amount itself, and get_rate is not called for the
\* row.  In convert_to_inr the target is INR and the amount is Proceeds; in
\* the dashboard every currency of the list is a target, for the columns
\* Proceeds_<cur> and Price_<cur>.  Rows with a missing amount are left out.
C10_SameCurrencyKeepsAmount ==
    /\ inr_out.called
          => \A i \in DOMAIN inr_out.df :
                 LET out == inr_out.df[i]
                 IN  (out.row.Currency = "INR" /\ ~IsNa(out.row.Proceeds))
                        => /\ out.INRAmount = out.row.Proceeds
                           /\ ~out.get_rate
    /\ pc = "processed"
          => \A i \in DOMAIN all_trades :
                 \A cur \in DOMAIN converted[i] :
                     all_trades[i].Currency = cur
                        => /\ converted[i][cur].Proceeds
                                = ToFloat(all_trades[i].Proceeds)
                           /\ converted[i][cur].Price
                                = ToFloat(all_trades[i].Price)

\* the lines convert_to_inr prints: one for every row whose conversion
\* raised, naming the row index, the amount and the currency; the frame is
\* the only value returned
ErrorLines(out) ==
    LET failed == { i \in DOMAIN out :
                        out[i].get_rate /\ IsNa(out[i].INRAmount) }
    IN  { [idx |-> i, amount |-> out[i].row.Proceeds,
           currency |-> out[i].row.Currency] : i \in failed }

\* a row convert_to_inr has no rate for: no currency to look up, or a
\* foreign currency whose lookup raises
NoRateAvailable(row, fx) ==
    \/ row.Currency = NaNCurrency
    \/ /\ row.Currency # "INR"
       /\ ~(row.Currency \in DOMAIN fx /\ fx[row.Currency].ok)

\* C11: every row of convert_to_inr without an available rate ends with an
\* absent 'INR Amount' (neither 0 nor the unconverted amount); every input
\* row is kept in the output; every row has an entry in the log of the
\* call; and no output row has an 'INR Amount' of 0 unless its Proceeds is 0.
C11_NoRateRowsAbsentAndLogged ==
    inr_out.called
       => LET out == inr_out.df
          IN  /\ Len(out) = Len(trading_df)
              /\ \A i \in DOMAIN out :
                    /\ out[i].row = trading_df[i]
                    /\ NoRateAvailable(out[i].row, forex)
                          => IsNa(out[i].INRAmount)
                    /\ \E e \in ErrorLines(out) : e.idx = i
                    /\ (~IsNa(out[i].INRAmount) /\ RIsZero(out[i].INRAmount))
                          => (~IsNa(out[i].row.Proceeds)
                                /\ RIsZero(out[i].row.Proceeds))

\* ------------------------------------------------ the loads: their inputs
MaxFiles == 2

\* the columns of a broker export; of one without Proceeds; of one without
\* DataDiscriminator
ExportColumns ==
    (required_cols \ {"Date"}) \cup {"Date/Time", "DataDiscriminator"}

\* a row of an export: symbol, 'Date/Time' cell, Quantity text
ExportRow(disc, s, dt, qtext) ==
    MkRow(disc, dt, qtext,
          MkTrade(s, 0, NaN, Rat(6), Rat(60), Rat(0), "USD"))

\* The uploaded files: two good files with a trade of X on day 0 each (one
\* with a SubTotal row, one with a quantity written "1,000" and a quantity
\* that is no number), a file without Proceeds, a file with a 'Date/Time'
\* that is no date, a file without DataDiscriminator, and a file with an
\* empty 'Date/Time'.
LoadFiles ==
    { MkFile(ExportColumns,
             <<ExportRow("Order", "X", DateCell(0), <<"1", "0">>),
               ExportRow("SubTotal", "X", EmptyCell, <<"1", "0">>)>>),
      MkFile(ExportColumns,
             <<ExportRow("Order", "X", DateCell(0), <<"1", ",", "0", "0", "0">>),
               ExportRow("Order", "Y", DateCell(2), <<"a", "b", "c">>)>>),
      MkFile(ExportColumns \ {"Proceeds"},
             <<ExportRow("Order", "Y", DateCell(0), <<"7">>)>>),
      MkFile(ExportColumns,
             <<ExportRow("Order", "Y", TextCell, <<"7">>)>>),
      MkFile(ExportColumns \ {"DataDiscriminator"},
             <<ExportRow("Order", "Y", DateCell(0), <<"7">>)>>),
      MkFile(ExportColumns,
             <<ExportRow("Order", "Y", EmptyCell, <<"-", "2", ".", "5">>),
               ExportRow("Order", "X", DateCell(2), <<"5">>)>>) }

\* the ledger a load starts from: the analyzer is kept in the session
\* state, so it is empty or the ledger of an earlier load of one file
PriorLedgers ==
    {EmptyFrame}
    \cup UNION { SortedByDate(Concat(<<f>>)) :
                    f \in { g \in LoadFiles : LoadSucceeds(<<g>>) } }

InitLoad ==
    /\ pc = "start"
    /\ uploaded_files \in (SeqsUpTo(LoadFiles, MaxFiles) \ {<<>>})
    /\ all_trades \in PriorLedgers
    /\ loaded_trades = all_trades
    /\ holdings = EmptyFrame
    /\ stock_splits = EmptyDict
    /\ currency_rates = EmptyDict
    /\ converted = EmptyFrame
    /\ xirr_results = EmptyDict
    /\ trading_df = <<>>
    /\ split_df = <<>>
    /\ splits_csv = MissingCsv
    /\ yf_splits = [s \in Symbols |-> YfSeries(<<>>)]
    /\ NoXirrInputs
    /\ NoFxInputs
    /\ NoCalls

NextLoad == LoadCsvFiles

SpecLoad == InitLoad /\ [][NextLoad]_vars

\* ----------------------------------------------------------------- loads
\* C12: a call of load_csv_files on files one of which lacks Proceeds or
\* another required column returns False and assigns nothing to all_trades:
\* the ledger holds no row taken from that call.
C12_MissingColumnRejectsLoad ==
    [][(LoadCsvFiles /\ MissingColumn(uploaded_files))
          => (pc' = "rejected" /\ all_trades' = all_trades)]_vars

\* a rejected load of two files, the first a good one with a trade, the
\* second without Proceeds, on an analyzer that holds an earlier ledger
C12_Witness ==
    /\ pc = "rejected"
    /\ Len(uploaded_files) = 2
    /\ LoadSucceeds(<<uploaded_files[1]>>)
    /\ TradeData(uploaded_files[1]) # <<>>
    /\ "Proceeds" \notin ColumnsOf(uploaded_files[2])
    /\ all_trades # EmptyFrame

\* a Date is before another: NaT is after every date
DateBefore(a, b) == a # NaT /\ (b = NaT \/ a < b)

\* df sorted by Date ascending, rows with equal Date in the order of df
StableSorted(df) ==
    LET g == CHOOSE f \in Perms(Len(df)) :
                 \A i, j \in DOMAIN df : i < j =>
                    \/ DateBefore(df[f[i]].Date, df[f[j]].Date)
                    \/ df[f[i]].Date = df[f[j]].Date /\ f[i] < f[j]
    IN  [i \in DOMAIN df |-> df[g[i]]]

\* C13: after a successful load of several files the ledger is the
\* concatenation of the files' trade rows (file order, then row order)
\* sorted by Date ascending, rows with equal Date keeping the order they
\* had in the concatenation.
C13_LedgerStablySorted ==
    (pc = "loaded" /\ Len(uploaded_files) >= 2)
       => all_trades = StableSorted(Concat(uploaded_files))

\* an Order row of a file whose 'Date/Time' is no date or whose Quantity
\* text is no number
Malformed(file, row) ==
    /\ row.DataDiscriminator = "Order"
    /\ \/ "Date/Time" \in file.Columns /\ row.DateTime.kind # "date"
       \/ /\ row.QuantityText # <<>>
          /\ IsNa(ToNumeric(RemoveCommas(row.QuantityText)))

\* the Order rows of the files that are not malformed, cleaned
RECURSIVE WellFormedFrom(_, _)
WellFormedFrom(files, k) ==
    IF k > Len(files) THEN <<>>
    ELSE LET keep == SelectSeq(files[k].Rows,
                        LAMBDA r : /\ r.DataDiscriminator = "Order"
                                   /\ ~Malformed(files[k], r))
         IN  [i \in DOMAIN keep |-> CleanRow(files[k], keep[i])]
             \o WellFormedFrom(files, k + 1)

\* C14: after a load that is accepted, every row whose 'Date/Time' is
\* unparseable or whose Quantity is non-numeric is absent from the ledger:
\* the ledger is an arrangement of the well-formed rows alone, and no
\* ledger row has a missing Date or a missing (NaN) or zero Quantity in
\* place of a non-numeric one.
C14_MalformedRowsDropped ==
    pc = "loaded"
       => /\ all_trades \in SortedByDate(WellFormedFrom(uploaded_files, 1))
          /\ \A i \in DOMAIN all_trades :
                 /\ all_trades[i].Date # NaT
                 /\ ~IsNa(all_trades[i].Quantity)

\* --------------------------------------------------------- end to end
\* the cash flows of the scenario: -100 on days 0, 30 and 60, +360 on day 90
ScenarioSeries ==
    <<MkFlow(0, Rat(-100)), MkFlow(30, Rat(-100)), MkFlow(60, Rat(-100)),
      MkFlow(90, Rat(360))>>

\* a result mapping holds a rate for X computed from the scenario's series
RateFromScenarioSeries(results) ==
    /\ "X" \in DOMAIN results
    /\ results["X"].kind = "rate"
    /\ results["X"].of = ScenarioSeries

\* C15: for the end-to-end scenario the adjusted ledger equals the input
\* ledger, the cash flows of X are [-100@0, -100@30, -100@60, +360@90] with
\* no terminal flow, and the result mapping has a non-absent entry for X:
\* in the module's calculate_xirr and in the dashboard's XIRR tab.
C15_EndToEndScenario ==
    trading_df = ScenarioLedger
       => /\ pc = "calc_done"
                => /\ xirr_out.kind = "returned"
                   /\ RateFromScenarioSeries(xirr_out.results)
          /\ (uploaded_files # <<>>
                /\ pc \in {"splits_applied", "rates_fetched", "processed",
                           "xirr_done"})
                => all_trades = ScenarioLedger
          /\ (uploaded_files # <<>> /\ pc = "xirr_done")
                => RateFromScenarioSeries(xirr_results)

\* ------------------------------------------------- the split reference
\* C16: load_stock_splits on a missing or unreadable file raises nothing
\* and returns an empty split table, and apply_splits with an empty split
\* table returns a ledger equal to its input; the dashboard's
\* apply_stock_splits with no split on record leaves the ledger as loaded.
C16_UnreadableSplitsAreNoSplits ==
    /\ [][(LoadStockSplitsCall /\ splits_csv.kind # "table")
              => (pc' = "call" /\ split_df' = EmptyFrame)]_vars
    /\ []((adjusted.called /\ split_df = EmptyFrame)
              => adjusted.df = trading_df)
    /\ []((pc = "splits_applied" /\ stock_splits = EmptyDict)
              => all_trades = loaded_trades)

\* apply_splits has returned a ledger with trades for the table that
\* load_stock_splits gave for a missing file
C16_Witness ==
    /\ splits_csv = MissingCsv
    /\ split_df = EmptyFrame
    /\ adjusted.called
    /\ Len(adjusted.df) = MaxTrades

\* ------------------------------------------------------------ the anchor
RECURSIVE MinFlowDateFrom(_, _)
MinFlowDateFrom(cashflows, k) ==
    IF k = Len(cashflows) THEN cashflows[k].date
    ELSE LET m == MinFlowDateFrom(cashflows, k + 1)
         IN  IF cashflows[k].date < m THEN cashflows[k].date ELSE m

\* the earliest date of a cash-flow list
EarliestDate(cashflows) == MinFlowDateFrom(cashflows, 1)

\* xnpv counts the days of every flow from the earliest date of the list
AnchoredAtEarliest(cashflows) ==
    /\ AnchorDate(cashflows) = EarliestDate(cashflows)
    /\ \A i \in DOMAIN cashflows :
           DayOffsets(cashflows)[i]
              = cashflows[i].date - EarliestDate(cashflows)

\* C17: xnpv discounts every flow by the number of days since the
\* earliest-dated flow of the list, in whatever order the flows are passed:
\* for the list of a direct call of xirr, and for the lists calculate_xirr
\* builds from a ledger, sorted or not.
C17_AnchorIsEarliestFlow ==
    /\ (xirr_ret.called /\ cashflows_arg # <<>>)
          => AnchoredAtEarliest(cashflows_arg)
    /\ pc = "calc_done"
          => \A s \in Symbols :
                 SymbolTrades(trading_df, s) # <<>>
                    => AnchoredAtEarliest(Cashflows(trading_df, s))

\* ------------------------------------- the two transforms: their inputs
\* ledger rows booked in USD, INR and EUR, and one without a currency
TransformTrades ==
    { MkTrade("X", 0, Rat(10), Rat(6), Rat(60), Rat(0), "USD"),
      MkTrade("X", 2, Rat(-4), Rat(6), Rat(24), Rat(1), "INR"),
      MkTrade("Y", 0, Rat(10), Rat(6), Rat(60), Rat(0), "EUR"),
      MkTrade("Y", 2, Rat(10), Rat(6), Rat(60), Rat(0), NaNCurrency) }

TransformSplits ==
    { [Symbol |-> "X", Date |-> 1, Ratio |-> Rat(2)],
      [Symbol |-> "Y", Date |-> 2, Ratio |-> Rat(3)] }

\* apply_splits(trading_df, split_df), then convert_to_inr(trading_df), on
\* the same frame of the caller
InitTransforms ==
    /\ pc = "call"
    /\ trading_df \in SeqsUpTo(TransformTrades, MaxTrades)
    /\ split_df \in SeqsUpTo(TransformSplits, MaxSplits)
    /\ splits_csv = AsCsv(split_df)
    /\ forex \in [{"USD", "EUR"} -> {FxRaise, FxRate(Rat(83))}]
    /\ fx_api = ApiException
    /\ uploaded_files = <<>>
    /\ yf_splits = [s \in Symbols |-> YfSeries(<<>>)]
    /\ NoXirrInputs
    /\ NoCalls
    /\ FreshAnalyzer

NextTransforms ==
    \/ ApplySplitsCall
    \/ ConvertToInrCall

SpecTransforms == InitTransforms /\ [][NextTransforms]_vars

\* the output rows are the input rows, one for one and in order, with the
\* same Symbol and Date (and fee and currency)
SameIdentity(in, out) ==
    /\ Len(out) = Len(in)
    /\ \A i \in DOMAIN in :
          /\ out[i].Symbol = in[i].Symbol
          /\ out[i].Date = in[i].Date
          /\ out[i].Fee = in[i].Fee
          /\ out[i].Currency = in[i].Currency

\* C18: apply_splits and convert_to_inr leave the table the caller passed
\* as it was; the table returned has the same number of rows in the same
\* order with every row's Symbol and Date equal to the input row's; only
\* Quantity, T. price and Proceeds (apply_splits) or the added 'INR Amount'
\* (convert_to_inr) differ.
C18_TransformsArePure ==
    [][/\ ApplySplitsCall
             => /\ trading_df' = trading_df
                /\ SameIdentity(trading_df, adjusted'.df)
       /\ ConvertToInrCall
             => /\ trading_df' = trading_df
                /\ Len(inr_out'.df) = Len(trading_df)
                /\ \A i \in DOMAIN trading_df :
                       inr_out'.df[i].row = trading_df[i]]_vars

\* both calls were made on a full ledger: apply_splits rewrote a row, and
\* convert_to_inr gave a row an amount that differs from its Proceeds
C18_Witness ==
    /\ pc = "inr_done"
    /\ Len(trading_df) = MaxTrades
    /\ adjusted.called /\ adjusted.df # trading_df
    /\ inr_out.called
    /\ \E i \in DOMAIN inr_out.df :
           /\ ~IsNa(inr_out.df[i].INRAmount)
           /\ inr_out.df[i].INRAmount # trading_df[i].Proceeds

\* ------------------------------------------------- holdings and ledger
\* the symbols listed in the holdings table
Listed(hold) == { hold[i].Symbol : i \in DOMAIN hold }

\* C19: when the Process Data sequence has completed, the holdings table
\* agrees with the split-adjusted ledger: a symbol is listed exactly when
\* the sum of its Quantity in all_trades is not 0, and the Quantity listed
\* is that sum.
C19_HoldingsAgreeWithLedger ==
    pc = "processed"
       => \A s \in Symbols :
              LET rows == CurrentHolding(holdings, s)
              IN  /\ s \in Listed(holdings)
                       <=> /\ SymbolTrades(all_trades, s) # <<>>
                           /\ ~RIsZero(TotalQuantity(all_trades, s))
                  /\ \A i \in DOMAIN rows :
                         rows[i].Quantity = TotalQuantity(all_trades, s)

====
